---- MODULE Spec2Model ----
(***************************************************************************)
(* Model of examples/offline_inference/audio_language.py: the registry of  *)
(* per-model prompt builders and the request runner main(args).            *)
(*                                                                         *)
(* Conventions.  An Optional value is None (the empty tuple) or Some(x)    *)
(* (the one-element tuple <<x>>).  A Python str is the sequence of the     *)
(* literal pieces it is concatenated from; a dict is a function on its     *)
(* keys; a list is a sequence.  External collaborators (tokenizers, the    *)
(* hub download, the engine) are choices over small sets of outcomes,      *)
(* failure included.                                                       *)
(***************************************************************************)
EXTENDS Integers, Sequences, FiniteSets, TLC

\* ---------------------------------------------------------------- bounds
\* num_prompts ranges over -MaxNonPositive .. MaxPrompts
MaxPrompts == 3
MaxNonPositive == 1
\* every result of one generate call exposes 1 .. MaxChoices output choices
MaxChoices == 2

\* ------------------------------------------------------- generic helpers
None == <<>>
Some(x) == <<x>>

\* Python truthiness of an Optional[str] / Optional[list]: None and the
\* empty value are both falsy
Truthy(o) == o # None /\ Len(o[1]) > 0

\* Python truthiness of an Optional[dict]
TruthyDict(o) == o # None /\ DOMAIN o[1] # {}

EmptyDict == [k \in {} |-> 0]

\* Python's  a | b  on dicts: b's entries win
DictUnion(a, b) ==
  [k \in DOMAIN a \cup DOMAIN b |-> IF k \in DOMAIN b THEN b[k] ELSE a[k]]

\* Python's  s * n  on lists and strings (empty for n <= 0)
RECURSIVE Repeat(_, _)
Repeat(s, n) == IF n <= 0 THEN <<>> ELSE s \o Repeat(s, n - 1)

\* Python's str(i) for the small naturals that occur
str(i) == <<"0", "1", "2", "3", "4", "5", "6", "7", "8", "9">>[i + 1]

\* ---------------------------------------------------------- module data
audio_assets == <<"mary_had_lamb", "winning_call">>

question_per_audio_count ==
  [n \in {0, 1, 2} |->
     <<"What is 1+1?",
       "What is recited in the audio?",
       "What sport and what nursery rhyme are referenced?">>[n + 1]]

\* class ModelRequestData(NamedTuple): every field but engine_args
\* defaults to None
ModelRequestData(engine_args, prompt, prompt_token_ids, multi_modal_data, stop_token_ids, lora_requests) ==
  [engine_args |-> engine_args,
   prompt |-> prompt,
   prompt_token_ids |-> prompt_token_ids,
   multi_modal_data |-> multi_modal_data,
   stop_token_ids |-> stop_token_ids,
   lora_requests |-> lora_requests]

LoRARequest(name, id, path) == [lora_name |-> name, lora_int_id |-> id, lora_path |-> path]

\* --------------------------------------------- external collaborators
\* what MistralTokenizer.encode_chat_completion may return as tokens.tokens
TokenIdSeqs == {<<1>>, <<1, 2>>}
\* tokens.audios: one decoded audio per AudioChunk of the request
EncodedAudios(audios) == audios
\* what tokenizer.convert_tokens_to_ids may return for the two stop tokens
StopTokenIds == {<<7, 8>>}
\* the local directory snapshot_download returns for a repository
snapshot_download(repo) == "/hub/snapshots/" \o repo
\* os.path.join
path_join(a, b) == a \o "/" \o b
\* tokenizer.apply_chat_template(messages, tokenize=False,
\* add_generation_prompt=True) with the tokenizer's own template: a str
\* that carries the message content
DefaultChatTemplate(content) ==
  <<"<chat_template:user>">> \o content \o <<"<chat_template:generation_prompt>">>
\* the texts the engine may generate
Texts == {"a", "b"}

\* ------------------------------------------------------------ builders
\* [audio_assets[i] for i in range(audio_count)]
FirstAssets(audio_count) == [i \in 1..audio_count |-> audio_assets[i]]

\* fault variant of run_voxtral: the rendered request text is returned next
\* to the token ids
run_voxtral_BothPrompts(question, audio_count, prompt_ids) ==
  ModelRequestData([model |-> "mistralai/Voxtral-Mini-3B-2507",
                    limit_mm_per_prompt |-> Some([audio |-> audio_count])],
                   Some(<<question>>), Some(prompt_ids),
                   Some([audio |-> EncodedAudios(FirstAssets(audio_count))]), None, None)

run_voxtral(question, audio_count, prompt_ids) ==
  LET model_name == "mistralai/Voxtral-Mini-3B-2507"
      engine_args == [model |-> model_name,
                      max_model_len |-> 8192,
                      max_num_seqs |-> 2,
                      limit_mm_per_prompt |-> Some([audio |-> audio_count]),
                      config_format |-> "mistral",
                      load_format |-> "mistral",
                      tokenizer_mode |-> "mistral",
                      enforce_eager |-> TRUE,
                      enable_chunked_prefill |-> FALSE]
      audios == EncodedAudios(FirstAssets(audio_count))
      multi_modal_data == [audio |-> audios]
  IN  ModelRequestData(engine_args, None, Some(prompt_ids), Some(multi_modal_data), None, None)

run_granite_speech(question, audio_count) ==
  LET model_name == "ibm-granite/granite-speech-3.3-8b"
      engine_args == [model |-> model_name,
                      trust_remote_code |-> TRUE,
                      max_model_len |-> 2048,
                      max_num_seqs |-> 2,
                      enable_lora |-> TRUE,
                      max_lora_rank |-> 64,
                      limit_mm_per_prompt |-> Some([audio |-> audio_count])]
      speech_lora_path == model_name
      audio_placeholder == Repeat(<<"<|audio|>">>, audio_count)
      prompts == <<"<|start_of_role|>system<|end_of_role|>Knowledge Cutoff Date: April 2024.\nToday's Date: December 19, 2024.\nYou are Granite, developed by IBM. You are a helpful AI assistant<|end_of_text|>\n<|start_of_role|>user<|end_of_role|>">>
                 \o audio_placeholder \o <<question>>
                 \o <<"<|end_of_text|>\n<|start_of_role|>assistant<|end_of_role|>">>
  IN  ModelRequestData(engine_args, Some(prompts), None, None, None,
                       Some(<<LoRARequest("speech", 1, speech_lora_path)>>))

run_minicpmo(question, audio_count, stop_token_ids) ==
  LET model_name == "openbmb/MiniCPM-o-2_6"
      engine_args == [model |-> model_name,
                      trust_remote_code |-> TRUE,
                      max_model_len |-> 4096,
                      max_num_seqs |-> 2,
                      limit_mm_per_prompt |-> Some([audio |-> audio_count])]
      audio_placeholder == Repeat(<<"(<audio>./</audio>)">>, audio_count)
      content == audio_placeholder \o <<"\n", question>>
      \* audio_chat_template applied to the one user message, with
      \* add_generation_prompt
      prompt == <<"<|im_start|>", "user", "\n">> \o content \o <<"<|im_end|>", "\n">>
                \o <<"<|im_start|>assistant\n<|spk_bos|><|spk|><|spk_eos|><|tts_bos|>">>
  IN  ModelRequestData(engine_args, Some(prompt), None, None, Some(stop_token_ids), None)

\* "".join([f"<|audio_{i + 1}|>" for i in range(audio_count)])
RECURSIVE Phi4mmPlaceholders(_)
Phi4mmPlaceholders(audio_count) ==
  IF audio_count <= 0 THEN <<>>
  ELSE Phi4mmPlaceholders(audio_count - 1) \o <<"<|audio_", str(audio_count), "|>">>

run_phi4mm(question, audio_count) ==
  LET model_path == snapshot_download("microsoft/Phi-4-multimodal-instruct")
      speech_lora_path == path_join(model_path, "speech-lora")
      placeholders == Phi4mmPlaceholders(audio_count)
      prompts == <<"<|user|>">> \o placeholders \o <<question, "<|end|><|assistant|>">>
      engine_args == [model |-> model_path,
                      trust_remote_code |-> TRUE,
                      max_model_len |-> 12800,
                      max_num_seqs |-> 2,
                      enable_lora |-> TRUE,
                      max_lora_rank |-> 320,
                      limit_mm_per_prompt |-> Some([audio |-> audio_count])]
  IN  ModelRequestData(engine_args, Some(prompts), None, None, None,
                       Some(<<LoRARequest("speech", 1, speech_lora_path)>>))

run_phi4_multimodal(question, audio_count) ==
  LET model_path == snapshot_download("microsoft/Phi-4-multimodal-instruct@refs/pr/70")
      speech_lora_path == path_join(model_path, "speech-lora")
      placeholders == Repeat(<<"<|audio|>">>, audio_count)
      prompts == <<"<|user|>">> \o placeholders \o <<question, "<|end|><|assistant|>">>
      engine_args == [model |-> model_path,
                      max_model_len |-> 12800,
                      max_num_seqs |-> 2,
                      enable_lora |-> TRUE,
                      max_lora_rank |-> 320,
                      limit_mm_per_prompt |-> Some([audio |-> audio_count])]
  IN  ModelRequestData(engine_args, Some(prompts), None, None, None,
                       Some(<<LoRARequest("speech", 1, speech_lora_path)>>))

AudioBlock == "<|audio_bos|><|AUDIO|><|audio_eos|>"

\* fault variant of Qwen2AudioInPrompt: the label is idx, not idx + 1
RECURSIVE Qwen2AudioInPrompt_ZeroBased(_)
Qwen2AudioInPrompt_ZeroBased(audio_count) ==
  IF audio_count <= 0 THEN <<>>
  ELSE Qwen2AudioInPrompt_ZeroBased(audio_count - 1)
       \o <<"Audio ", str(audio_count - 1), ": ", AudioBlock, "\n">>

\* "".join([f"Audio {idx + 1}: <|audio_bos|><|AUDIO|><|audio_eos|>\n"
\*          for idx in range(audio_count)])
RECURSIVE Qwen2AudioInPrompt(_)
Qwen2AudioInPrompt(audio_count) ==
  IF audio_count <= 0 THEN <<>>
  ELSE Qwen2AudioInPrompt(audio_count - 1)
       \o <<"Audio ", str((audio_count - 1) + 1), ": ", AudioBlock, "\n">>

run_qwen2_audio(question, audio_count) ==
  LET model_name == "Qwen/Qwen2-Audio-7B-Instruct"
      engine_args == [model |-> model_name,
                      max_model_len |-> 4096,
                      max_num_seqs |-> 5,
                      limit_mm_per_prompt |-> Some([audio |-> audio_count])]
      audio_in_prompt == Qwen2AudioInPrompt(audio_count)
      prompt == <<"<|im_start|>system\nYou are a helpful assistant.<|im_end|>\n",
                  "<|im_start|>user\n">>
                \o audio_in_prompt \o <<question, "<|im_end|>\n">>
                \o <<"<|im_start|>assistant\n">>
  IN  ModelRequestData(engine_args, Some(prompt), None, None, None, None)

run_qwen2_5_omni(question, audio_count) ==
  LET model_name == "Qwen/Qwen2.5-Omni-7B"
      engine_args == [model |-> model_name,
                      max_model_len |-> 4096,
                      max_num_seqs |-> 5,
                      limit_mm_per_prompt |-> Some([audio |-> audio_count])]
      audio_in_prompt == Repeat(<<AudioBlock, "\n">>, audio_count)
      default_system == "You are Qwen, a virtual human developed by the Qwen Team, Alibaba Group, capable of perceiving auditory and visual inputs, as well as generating text and speech."
      prompt == <<"<|im_start|>system\n", default_system, "<|im_end|>\n",
                  "<|im_start|>user\n">>
                \o audio_in_prompt \o <<question, "<|im_end|>\n">>
                \o <<"<|im_start|>assistant\n">>
  IN  ModelRequestData(engine_args, Some(prompt), None, None, None, None)

run_ultravox(question, audio_count) ==
  LET model_name == "fixie-ai/ultravox-v0_5-llama-3_2-1b"
      content == Repeat(<<"<|audio|>\n">>, audio_count) \o <<question>>
      prompt == DefaultChatTemplate(content)
      engine_args == [model |-> model_name,
                      max_model_len |-> 4096,
                      max_num_seqs |-> 5,
                      trust_remote_code |-> TRUE,
                      limit_mm_per_prompt |-> Some([audio |-> audio_count])]
  IN  ModelRequestData(engine_args, Some(prompt), None, None, None, None)

\* fault variant of WhisperAccepts: any positive count passes
WhisperAccepts_AtLeastOne(audio_count) == audio_count >= 1

\* assert audio_count == 1
WhisperAccepts(audio_count) == audio_count = 1

run_whisper(question, audio_count) ==
  LET model_name == "openai/whisper-large-v3-turbo"
      prompt == <<"<|startoftranscript|>">>
      engine_args == [model |-> model_name,
                      max_model_len |-> 448,
                      max_num_seqs |-> 5,
                      limit_mm_per_prompt |-> Some([audio |-> audio_count])]
  IN  ModelRequestData(engine_args, Some(prompt), None, None, None, None)

\* the keys of model_example_map
ModelKeys ==
  {"voxtral", "granite_speech", "minicpmo", "phi4_mm", "phi4_multimodal",
   "qwen2_audio", "qwen2_5_omni", "ultravox", "whisper"}

\* builders that call a tokenizer or the hub, which may fail
ExternalBuilders == {"voxtral", "minicpmo", "phi4_mm", "phi4_multimodal", "ultravox"}

\* whether model_example_map[model](question, audio_count) raises its own
\* assertion
BuilderAsserts(model, audio_count) == model = "whisper" /\ ~WhisperAccepts(audio_count)

\* the records model_example_map[model](question, audio_count) may return
model_example_map(model, question, audio_count) ==
  CASE model = "voxtral" -> {run_voxtral(question, audio_count, ids) : ids \in TokenIdSeqs}
    [] model = "granite_speech" -> {run_granite_speech(question, audio_count)}
    [] model = "minicpmo" -> {run_minicpmo(question, audio_count, ids) : ids \in StopTokenIds}
    [] model = "phi4_mm" -> {run_phi4mm(question, audio_count)}
    [] model = "phi4_multimodal" -> {run_phi4_multimodal(question, audio_count)}
    [] model = "qwen2_audio" -> {run_qwen2_audio(question, audio_count)}
    [] model = "qwen2_5_omni" -> {run_qwen2_5_omni(question, audio_count)}
    [] model = "ultravox" -> {run_ultravox(question, audio_count)}
    [] model = "whisper" -> {run_whisper(question, audio_count)}

\* ------------------------------------------------------------- the runner
\* --model-type as main may receive it: a registered key or something else
ModelTypes == ModelKeys \cup {"not_registered"}
\* --num-audios: choices=[0, 1, 2]
NumAudiosChoices == {0, 1, 2}
\* --num-prompts: any int
NumPromptsChoices == (0 - MaxNonPositive) .. MaxPrompts
\* --seed: None by default, or an int
Seeds == {None, Some(0)}

ArgsSpace ==
  [model_type : ModelTypes, num_audios : NumAudiosChoices,
   num_prompts : NumPromptsChoices, seed : Seeds]

VARIABLES
  args,            \* the parsed arguments main is called with
  pc,              \* position in main: start, built, merged, llm, ready,
                   \* generated, done, failed
  error,           \* the exception main ended with, "none" while there is none
  builder_calls,   \* number of builder invocations
  req_data,        \* Optional ModelRequestData returned by the builder
  llm_calls,       \* number of LLM(...) constructor invocations
  llm,             \* Optional engine kwargs the LLM was constructed with
  sampling_params, \* Optional SamplingParams
  mm_data,         \* Optional local mm_data
  inputs,          \* Optional local inputs
  lora_request,    \* Optional local lora_request (itself None or a list)
  gen_calls,       \* the llm.generate calls issued, in order
  outputs,         \* Optional list of results generate returned
  printed          \* the lines printed, in order

vars ==
  <<args, pc, error, builder_calls, req_data, llm_calls, llm, sampling_params,
    mm_data, inputs, lora_request, gen_calls, outputs, printed>>

Init ==
  /\ args \in ArgsSpace
  /\ pc = "start"
  /\ error = "none"
  /\ builder_calls = 0
  /\ req_data = None
  /\ llm_calls = 0
  /\ llm = None
  /\ sampling_params = None
  /\ mm_data = None
  /\ inputs = None
  /\ lora_request = None
  /\ gen_calls = <<>>
  /\ outputs = None
  /\ printed = <<>>

\* main ends with an exception of the given kind
Raise(kind) == pc' = "failed" /\ error' = kind

\* if model not in model_example_map
ModelSupported(model) == model \in ModelKeys

\* fault variant of RejectModel: the membership test is missing and the
\* registry lookup itself raises
RejectModel_LookupRaises ==
  /\ pc = "start"
  /\ ~ModelSupported(args.model_type)
  /\ Raise("KeyError")
  /\ UNCHANGED <<args, builder_calls, req_data, llm_calls, llm, sampling_params,
                 mm_data, inputs, lora_request, gen_calls, outputs, printed>>

\* lines 379-381: raise ValueError
RejectModel ==
  /\ pc = "start"
  /\ ~ModelSupported(args.model_type)
  /\ Raise("ValueError")
  /\ UNCHANGED <<args, builder_calls, req_data, llm_calls, llm, sampling_params,
                 mm_data, inputs, lora_request, gen_calls, outputs, printed>>

\* lines 383-386, the builder's own assertion fails
BuildAssertFails ==
  /\ pc = "start"
  /\ ModelSupported(args.model_type)
  /\ BuilderAsserts(args.model_type, args.num_audios)
  /\ builder_calls' = builder_calls + 1
  /\ Raise("AssertionError")
  /\ UNCHANGED <<args, req_data, llm_calls, llm, sampling_params,
                 mm_data, inputs, lora_request, gen_calls, outputs, printed>>

\* lines 383-386, the builder's tokenizer or hub access fails
BuildExternalFails ==
  /\ pc = "start"
  /\ ModelSupported(args.model_type)
  /\ args.model_type \in ExternalBuilders
  /\ builder_calls' = builder_calls + 1
  /\ Raise("ExternalError")
  /\ UNCHANGED <<args, req_data, llm_calls, llm, sampling_params,
                 mm_data, inputs, lora_request, gen_calls, outputs, printed>>

\* lines 383-386, the builder returns
Build ==
  /\ pc = "start"
  /\ ModelSupported(args.model_type)
  /\ ~BuilderAsserts(args.model_type, args.num_audios)
  /\ LET audio_count == args.num_audios
     IN  \E r \in model_example_map(args.model_type,
                                    question_per_audio_count[audio_count], audio_count) :
           req_data' = Some(r)
  /\ builder_calls' = builder_calls + 1
  /\ pc' = "built"
  /\ UNCHANGED <<args, error, llm_calls, llm, sampling_params,
                 mm_data, inputs, lora_request, gen_calls, outputs, printed>>

default_limits == [image |-> 0, video |-> 0, audio |-> 0]

\* fault variant of MergedLimits: the operands of | are swapped, so the
\* zero defaults win
MergedLimits_DefaultsWin(declared) ==
  DictUnion(IF TruthyDict(declared) THEN declared[1] ELSE EmptyDict, default_limits)

\* default_limits | dict(limit_mm_per_prompt or {})
MergedLimits(declared) ==
  DictUnion(default_limits, IF TruthyDict(declared) THEN declared[1] ELSE EmptyDict)

\* fault variant of WithMergedLimits: the engine configuration is replaced
\* by one holding only the limits
WithMergedLimits_DropsConfig(r) ==
  [r EXCEPT !.engine_args = [limit_mm_per_prompt |-> Some(DictUnion(default_limits, r.engine_args.limit_mm_per_prompt[1]))]]

\* the record after lines 389-392: only engine_args.limit_mm_per_prompt is
\* assigned
WithMergedLimits(r) ==
  [r EXCEPT !.engine_args.limit_mm_per_prompt = Some(MergedLimits(@))]

\* lines 388-392
MergeLimits ==
  /\ pc = "built"
  /\ req_data' = Some(WithMergedLimits(req_data[1]))
  /\ pc' = "merged"
  /\ UNCHANGED <<args, error, builder_calls, llm_calls, llm, sampling_params,
                 mm_data, inputs, lora_request, gen_calls, outputs, printed>>

\* dataclasses.asdict on the engine configuration
asdict(engine_args) == [k \in DOMAIN engine_args |-> engine_args[k]]

\* asdict(req_data.engine_args) | {"seed": args.seed}
EngineKwargs(r, seed) == DictUnion(asdict(r.engine_args), [seed |-> seed])

\* lines 394-395, the engine client is constructed
ConstructLLM ==
  /\ pc = "merged"
  /\ llm_calls' = llm_calls + 1
  /\ llm' = Some(EngineKwargs(req_data[1], args.seed))
  /\ pc' = "llm"
  /\ UNCHANGED <<args, error, builder_calls, req_data, sampling_params,
                 mm_data, inputs, lora_request, gen_calls, outputs, printed>>

\* lines 394-395, model loading fails
ConstructLLMFails ==
  /\ pc = "merged"
  /\ llm_calls' = llm_calls + 1
  /\ Raise("ExternalError")
  /\ UNCHANGED <<args, builder_calls, req_data, llm, sampling_params,
                 mm_data, inputs, lora_request, gen_calls, outputs, printed>>

\* lines 399-401
SamplingParams(r) ==
  [temperature |-> "0.2", max_tokens |-> 64, stop_token_ids |-> r.stop_token_ids]

\* fault variant of AssetsUpTo: every bundled asset is attached
AssetsUpTo_All(audio_count) == audio_assets

\* audio_assets[:audio_count]
AssetsUpTo(audio_count) ==
  SubSeq(audio_assets, 1, IF audio_count < Len(audio_assets) THEN audio_count ELSE Len(audio_assets))

\* lines 403-411
MMData(r, audio_count) ==
  IF TruthyDict(r.multi_modal_data) THEN r.multi_modal_data[1]
  ELSE IF audio_count > 0 THEN [audio |-> AssetsUpTo(audio_count)]
  ELSE EmptyDict

\* fault variant of NumPromptsOk: >= instead of >
NumPromptsOk_NonNegative(num_prompts) == num_prompts >= 0

\* assert args.num_prompts > 0
NumPromptsOk(num_prompts) == num_prompts > 0

\* lines 414-419
OneInput(r, mm) ==
  IF Truthy(r.prompt)
  THEN [multi_modal_data |-> mm, prompt |-> r.prompt[1]]
  ELSE [multi_modal_data |-> mm, prompt_token_ids |-> r.prompt_token_ids]

\* lines 414-423: one dict, or a list of num_prompts references to it
Inputs(r, mm, num_prompts) ==
  IF num_prompts > 1
  THEN [kind |-> "list", value |-> Repeat(<<OneInput(r, mm)>>, num_prompts)]
  ELSE [kind |-> "dict", value |-> OneInput(r, mm)]

\* fault variant of LoraRequest: the list is passed on unrepeated
LoraRequest_Unrepeated(r, num_prompts) ==
  IF Truthy(r.lora_requests) THEN Some(r.lora_requests[1]) ELSE None

\* lines 425-427
LoraRequest(r, num_prompts) ==
  IF Truthy(r.lora_requests) THEN Some(Repeat(r.lora_requests[1], num_prompts)) ELSE None

\* lines 399-413, the assertion on num_prompts fails
AssertNumPromptsFails ==
  /\ pc = "llm"
  /\ sampling_params' = Some(SamplingParams(req_data[1]))
  /\ mm_data' = Some(MMData(req_data[1], args.num_audios))
  /\ ~NumPromptsOk(args.num_prompts)
  /\ Raise("AssertionError")
  /\ UNCHANGED <<args, builder_calls, req_data, llm_calls, llm,
                 inputs, lora_request, gen_calls, outputs, printed>>

\* lines 399-427
PrepareInputs ==
  /\ pc = "llm"
  /\ sampling_params' = Some(SamplingParams(req_data[1]))
  /\ mm_data' = Some(MMData(req_data[1], args.num_audios))
  /\ NumPromptsOk(args.num_prompts)
  /\ inputs' = Some(Inputs(req_data[1], MMData(req_data[1], args.num_audios), args.num_prompts))
  /\ lora_request' = Some(LoraRequest(req_data[1], args.num_prompts))
  /\ pc' = "ready"
  /\ UNCHANGED <<args, error, builder_calls, req_data, llm_calls, llm,
                 gen_calls, outputs, printed>>

\* the number of prompts the engine sees in inputs
NumInputs(inp) == IF inp.kind = "list" THEN Len(inp.value) ELSE 1

\* what generate may return for n prompts: one result per prompt, each with
\* the same number (at least one) of output choices
EngineOutputs(n) ==
  UNION {[1..n -> [outputs : [1..c -> [text : Texts]]]] : c \in 1..MaxChoices}

GenerateCall == [inputs |-> inputs[1], sampling_params |-> sampling_params[1],
                 lora_request |-> lora_request[1]]

\* lines 429-433, generate returns
Generate ==
  /\ pc = "ready"
  /\ gen_calls' = Append(gen_calls, GenerateCall)
  /\ \E outs \in EngineOutputs(NumInputs(inputs[1])) : outputs' = Some(outs)
  /\ pc' = "generated"
  /\ UNCHANGED <<args, error, builder_calls, req_data, llm_calls, llm,
                 sampling_params, mm_data, inputs, lora_request, printed>>

\* lines 429-433, generation fails
GenerateFails ==
  /\ pc = "ready"
  /\ gen_calls' = Append(gen_calls, GenerateCall)
  /\ Raise("ExternalError")
  /\ UNCHANGED <<args, builder_calls, req_data, llm_calls, llm,
                 sampling_params, mm_data, inputs, lora_request, outputs, printed>>

\* fault variant of generated_text: the last choice, o.outputs[-1].text
generated_text_LastChoice(o) == o.outputs[Len(o.outputs)].text

\* line 436: o.outputs[0].text
generated_text(o) == o.outputs[1].text

\* lines 435-437, one iteration of the loop over outputs
PrintOne ==
  /\ pc = "generated"
  /\ Len(printed) < Len(outputs[1])
  /\ printed' = Append(printed, generated_text(outputs[1][Len(printed) + 1]))
  /\ UNCHANGED <<args, pc, error, builder_calls, req_data, llm_calls, llm,
                 sampling_params, mm_data, inputs, lora_request, gen_calls, outputs>>

\* lines 435-437, the loop is exhausted and main returns
Finish ==
  /\ pc = "generated"
  /\ Len(printed) = Len(outputs[1])
  /\ pc' = "done"
  /\ UNCHANGED <<args, error, builder_calls, req_data, llm_calls, llm,
                 sampling_params, mm_data, inputs, lora_request, gen_calls, outputs,
                 printed>>

Next ==
  \/ RejectModel
  \/ BuildAssertFails
  \/ BuildExternalFails
  \/ Build
  \/ MergeLimits
  \/ ConstructLLM
  \/ ConstructLLMFails
  \/ AssertNumPromptsFails
  \/ PrepareInputs
  \/ Generate
  \/ GenerateFails
  \/ PrintOne
  \/ Finish

Spec == Init /\ [][Next]_vars

\* ------------------------------------------------------------ properties
Registered == args.model_type \in ModelKeys
Ended == pc \in {"done", "failed"}

\* C1: called with a model_type that is not a key of model_example_map, main
\* fails with ValueError before any other step: no builder is invoked, no
\* engine client is constructed, no generate call is issued, nothing is
\* printed.
C1_UnknownModelFailsFirst ==
  ~Registered =>
    /\ pc \in {"start", "failed"}
    /\ pc = "failed" => error = "ValueError"
    /\ builder_calls = 0 /\ req_data = None
    /\ llm_calls = 0 /\ llm = None
    /\ gen_calls = <<>> /\ outputs = None
    /\ printed = <<>>

C1_Witness == ~Registered /\ pc = "failed" /\ error = "ValueError"

\* exactly one of prompt and prompt_token_ids is non-None
ExactlyOnePrompt(r) == (r.prompt # None) # (r.prompt_token_ids # None)

\* every record a builder may return, over all keys and accepted counts
BuildersExactlyOnePrompt ==
  \A m \in ModelKeys : \A n \in NumAudiosChoices :
    ~BuilderAsserts(m, n) =>
      \A r \in model_example_map(m, question_per_audio_count[n], n) :
        ExactlyOnePrompt(r)

\* C2: for every registered key and every audio count in {0,1,2} its builder
\* does not raise on, every record the builder may return has exactly one of
\* prompt and prompt_token_ids populated; so has the record main holds.
C2_ExactlyOnePromptField ==
  /\ BuildersExactlyOnePrompt
  /\ req_data # None => ExactlyOnePrompt(req_data[1])

C2_Witness ==
  /\ args.model_type = "voxtral"
  /\ req_data # None
  /\ req_data[1].prompt = None
  /\ req_data[1].prompt_token_ids # None

\* C3: run_whisper fails with its assertion for every audio count other than
\* 1 and returns no record, so main with model_type = whisper and such a
\* count never constructs the engine client and never calls generate; with
\* audio count 1 the builder returns a record.
C3_WhisperNeedsOneAudio ==
  args.model_type = "whisper" =>
    /\ args.num_audios # 1 =>
         /\ pc \in {"start", "failed"}
         /\ pc = "failed" => error = "AssertionError" /\ builder_calls = 1
         /\ req_data = None
         /\ llm_calls = 0 /\ llm = None
         /\ gen_calls = <<>>
    /\ args.num_audios = 1 /\ pc # "start" =>
         /\ req_data # None
         /\ req_data[1].prompt = Some(<<"<|startoftranscript|>">>)
         /\ builder_calls = 1

C3_Witness ==
  /\ args.model_type = "whisper"
  /\ args.num_audios = 2
  /\ pc = "failed"
  /\ error = "AssertionError"

\* C4: generate is never called more than once and the engine client is never
\* constructed more than once (no retry); a generate call comes after the
\* one successful construction; lines are printed only after generate
\* returned, the i-th line being the text of the first output choice of the
\* i-th result; a run that completes without error has called generate
\* exactly once and printed exactly one line per result.
C4_OneGenerateThenPrint ==
  /\ Len(gen_calls) <= 1
  /\ llm_calls <= 1
  /\ gen_calls # <<>> => llm_calls = 1 /\ llm # None
  /\ printed # <<>> => gen_calls # <<>> /\ outputs # None
  /\ outputs # None =>
       /\ Len(printed) <= Len(outputs[1])
       /\ \A i \in 1..Len(printed) : printed[i] = outputs[1][i].outputs[1].text
  /\ pc = "done" =>
       /\ error = "none"
       /\ Len(gen_calls) = 1
       /\ outputs # None
       /\ Len(printed) = Len(outputs[1])
  /\ pc = "failed" => error # "none"

C4_Witness ==
  /\ pc = "done"
  /\ Len(printed) = 3
  /\ printed[1] # printed[2]
  /\ Len(outputs[1][1].outputs) = 2
  /\ outputs[1][1].outputs[1].text # outputs[1][1].outputs[2].text

\* C5: in the generate call, for num_prompts N > 1 the inputs are a list of
\* exactly N identical records, each carrying the multi_modal_data main
\* computed and the builder's prompt (or, without one, its prompt_token_ids);
\* for N >= 1 the lora_request is the builder's single adapter request
\* repeated N times when the builder supplied one, and None otherwise.
C5_BatchRepeatsInputsAndLora ==
  gen_calls # <<>> =>
    LET call == gen_calls[1]
        N == args.num_prompts
        r == req_data[1]
    IN  /\ N >= 1
        /\ N > 1 =>
             /\ call.inputs.kind = "list"
             /\ Len(call.inputs.value) = N
             /\ \A i \in 1..N :
                  /\ call.inputs.value[i] = call.inputs.value[1]
                  /\ call.inputs.value[i].multi_modal_data = mm_data[1]
                  /\ IF r.prompt # None
                     THEN /\ DOMAIN call.inputs.value[i] = {"multi_modal_data", "prompt"}
                          /\ call.inputs.value[i].prompt = r.prompt[1]
                     ELSE /\ DOMAIN call.inputs.value[i] = {"multi_modal_data", "prompt_token_ids"}
                          /\ call.inputs.value[i].prompt_token_ids = r.prompt_token_ids
        /\ IF r.lora_requests # None
           THEN /\ Len(r.lora_requests[1]) = 1
                /\ call.lora_request # None
                /\ Len(call.lora_request[1]) = N
                /\ \A i \in 1..N : call.lora_request[1][i] = r.lora_requests[1][1]
           ELSE call.lora_request = None

C5_Witness ==
  /\ gen_calls # <<>>
  /\ args.num_prompts = 3
  /\ gen_calls[1].lora_request # None
  /\ Len(gen_calls[1].inputs.value) = 3

\* the per-modality limits the builder declared for audio count n
Declared(n) == Some([audio |-> n])
\* the limit map with only audio enabled, up to n items
AudioOnly(n) == [image |-> 0, video |-> 0, audio |-> n]

\* the merge itself, on the declared maps and on a missing or empty one
MergeOverlaysDefaults ==
  /\ \A n \in NumAudiosChoices : MergedLimits(Declared(n)) = AudioOnly(n)
  /\ MergedLimits(None) = AudioOnly(0)
  /\ MergedLimits(Some(EmptyDict)) = AudioOnly(0)

\* C6: every builder result declares the limits {audio: N} (N the audio
\* count), and the limit map main passes to the engine is then exactly
\* {image: 0, video: 0, audio: N}; a missing (None) or empty declared map
\* yields all zeros.
C6_LimitsOverlayZeroDefaults ==
  /\ pc = "built" => req_data[1].engine_args.limit_mm_per_prompt = Declared(args.num_audios)
  /\ llm # None => llm[1].limit_mm_per_prompt = Some(AudioOnly(args.num_audios))
  /\ MergeOverlaysDefaults

C6_Witness ==
  /\ llm # None
  /\ args.num_audios = 2
  /\ llm[1].limit_mm_per_prompt[1].audio = 2
  /\ llm[1].limit_mm_per_prompt[1].image = 0

BlockPositions(p) == {i \in 1..Len(p) : p[i] = AudioBlock}
\* the indices of a given piece in a prompt
PositionsOf(p, piece) == {i \in 1..Len(p) : p[i] = piece}

\* C8: for model_type = qwen2_audio and audio count n in {0,1,2} the built
\* prompt holds exactly n audio placeholder blocks, the k-th of them labeled
\* "Audio k: " for k = 1..n in increasing order, and the question selected
\* for n comes once, right after the line of the last block (after the user
\* header when n = 0); for n = 2 the question is the one about the sport and
\* the nursery rhyme.
C8_Qwen2AudioPrompt ==
  /\ question_per_audio_count[2] = "What sport and what nursery rhyme are referenced?"
  /\ (args.model_type = "qwen2_audio" /\ req_data # None) =>
       LET n == args.num_audios
           p == req_data[1].prompt[1]
           blocks == BlockPositions(p)
           qs == PositionsOf(p, question_per_audio_count[n])
       IN  /\ Cardinality(blocks) = n
           /\ \A b \in blocks :
                LET k == Cardinality({c \in blocks : c <= b})
                IN  /\ b > 3
                    /\ p[b - 3] = "Audio " /\ p[b - 2] = str(k) /\ p[b - 1] = ": "
                    /\ p[b + 1] = "\n"
           /\ Cardinality(qs) = 1
           /\ \A q \in qs :
                /\ \A b \in blocks : b < q
                /\ \A b \in blocks : (\A c \in blocks : c <= b) => q = b + 2
                /\ n = 0 => p[q - 1] = "<|im_start|>user\n"
                /\ p[q + 1] = "<|im_end|>\n"

C8_Witness ==
  /\ args.model_type = "qwen2_audio"
  /\ args.num_audios = 2
  /\ req_data # None
  /\ Cardinality(BlockPositions(req_data[1].prompt[1])) = 2

\* the input records of a generate call
InputRecords(inp) ==
  IF inp.kind = "list" THEN {inp.value[i] : i \in 1..Len(inp.value)} ELSE {inp.value}
\* the number of audio items of a multimodal payload
AudioItems(mm) == IF "audio" \in DOMAIN mm THEN Len(mm.audio) ELSE 0

\* C9: in every run that reaches the generate call, each input record
\* carries no more audio items than the audio limit of the configuration the
\* engine client was constructed with; a builder that returns no payload
\* gets the first audio_count bundled assets, and an empty payload when the
\* count is 0.
C9_AudioItemsWithinLimit ==
  gen_calls # <<>> =>
    /\ \A rec \in InputRecords(gen_calls[1].inputs) :
         /\ AudioItems(rec.multi_modal_data) <= llm[1].limit_mm_per_prompt[1].audio
         /\ AudioItems(rec.multi_modal_data) = args.num_audios
         /\ req_data[1].multi_modal_data = None =>
              IF args.num_audios = 0
              THEN DOMAIN rec.multi_modal_data = {}
              ELSE /\ DOMAIN rec.multi_modal_data = {"audio"}
                   /\ \A i \in 1..args.num_audios :
                        rec.multi_modal_data.audio[i] = audio_assets[i]

C9_Witness ==
  /\ gen_calls # <<>>
  /\ args.num_audios = 2
  /\ req_data[1].multi_modal_data = None
  /\ \E rec \in InputRecords(gen_calls[1].inputs) : AudioItems(rec.multi_modal_data) = 2

\* C10 as stated: once the builder has returned the record, no step of main
\* changes it or the engine configuration it holds.
C10_Original == [][req_data # None => req_data' = req_data]_vars

\* two records agree on every field and on every engine setting other than
\* limit_mm_per_prompt
SameButLimits(a, b) ==
  /\ a.prompt = b.prompt
  /\ a.prompt_token_ids = b.prompt_token_ids
  /\ a.multi_modal_data = b.multi_modal_data
  /\ a.stop_token_ids = b.stop_token_ids
  /\ a.lora_requests = b.lora_requests
  /\ DOMAIN a.engine_args = DOMAIN b.engine_args
  /\ \A k \in DOMAIN a.engine_args \ {"limit_mm_per_prompt"} :
       a.engine_args[k] = b.engine_args[k]

\* C10 amended: the record is created once by the builder and none of its
\* fields is ever rebound, but main changes the engine configuration it
\* holds exactly once, right after the builder returned: it replaces
\* limit_mm_per_prompt, declared as {audio: N}, by {image: 0, video: 0,
\* audio: N}.  Every other engine setting and every other field stays as
\* built, and after that one assignment nothing changes until exit.
C10_OnlyLimitsReassignedOnce ==
  [][req_data # None =>
       /\ req_data' # None
       /\ SameButLimits(req_data[1], req_data'[1])
       /\ IF pc = "built"
          THEN /\ req_data[1].engine_args.limit_mm_per_prompt = Declared(args.num_audios)
               /\ req_data'[1].engine_args.limit_mm_per_prompt = Some(AudioOnly(args.num_audios))
          ELSE req_data' = req_data]_vars

C10_Witness ==
  /\ pc = "done"
  /\ args.num_audios = 1
  /\ req_data[1].engine_args.limit_mm_per_prompt = Some(AudioOnly(1))
  /\ req_data[1].engine_args.limit_mm_per_prompt # Declared(1)

====
